---------------------------- MODULE Spec2Model ----------------------------
(***************************************************************************)
(* Model of the hardware recommendation service (src/main.py).             *)
(*                                                                         *)
(* The service loads a knowledge base once (profiles, components by        *)
(* category, allocation percentages) and answers POST /recommend and       *)
(* GET /health.  Every request is handled by one synchronous handler, so   *)
(* each handler is one action.  random.choice is a nondeterministic        *)
(* choice: a selection function is modelled as the SET of values it may    *)
(* return.                                                                 *)
(*                                                                         *)
(* Conventions                                                             *)
(*   - a Python dict is a record; d.get(k, default) is Get(d, k, default); *)
(*   - a Python list is a sequence (1-based here, 0-based in the source),  *)
(*     and [x for x in s if p(x)] is SelectSeq(s, p);                      *)
(*   - a Python str that the code transforms (the request profile) is a    *)
(*     sequence of one-character strings, so lower() and strip() are       *)
(*     computed;                                                           *)
(*   - amounts are whole currency units; a fraction of the budget such as  *)
(*     0.25 is held as the integer 25 (hundredths), and the comparison     *)
(*     price <= budget * percent * 1.15 is done on integers as             *)
(*     price * 10000 <= budget * percent * 115.                            *)
(***************************************************************************)
EXTENDS Integers, Sequences, FiniteSets, TLC

VARIABLES
    knowledge,   \* the loaded base_knowledge.json (main.py:15), read-only
    request,     \* the request being answered, or NoRequest
    response,    \* the handler's return value, or NoResponse
    best_args,   \* arguments of a direct call of choose_best_component
    best_ret,    \* its return value, or NotCalled
    psu_args,    \* arguments of two direct calls of choose_psu on one list
    psu_ret      \* their return values, or NotCalled

vars == <<knowledge, request, response, best_args, best_ret, psu_args, psu_ret>>

----------------------------------------------------------------------------
(* Bounds of the exploration *)

\* how many categories of the knowledge base may differ from the reference
MaxVaried == 2
\* budgets are 5000 * k for k in 1..MaxBudgetK
MaxBudgetK == 9
\* longest candidate list handed to choose_best_component directly
MaxComps == 3
\* longest PSU list handed to choose_psu directly
MaxPsus == 5

----------------------------------------------------------------------------
(* Python values *)

None == [none |-> TRUE]
NoRequest == [idle |-> TRUE]
NoResponse == [pending |-> TRUE]
NotCalled == [not_called |-> TRUE]
\* the knowledge base where no handler runs
NotUsed == [not_used |-> TRUE]

\* float("inf"), the default price of min(...) keys
Inf == 1000000000

Get(d, k, default) == IF k \in DOMAIN d THEN d[k] ELSE default

\* a.get(k) == b.get(k), a missing key reading as Python's None
same_get(a, b, k) ==
    IF k \in DOMAIN a /\ k \in DOMAIN b THEN a[k] = b[k]
    ELSE k \notin DOMAIN a /\ k \notin DOMAIN b

\* d.get(k) in values, for values that are never None
get_in(d, k, values) == k \in DOMAIN d /\ d[k] \in values

Elems(s) == {s[i] : i \in DOMAIN s}

RECURSIVE SumSeq(_)
SumSeq(s) == IF s = <<>> THEN 0 ELSE Head(s) + SumSeq(Tail(s))

\* min(s, key=lambda c: c.get("price", float("inf"))): the first cheapest
min_by_price(s) ==
    LET p(i) == Get(s[i], "price", Inf)
        i0 == CHOOSE i \in DOMAIN s :
                  /\ \A j \in DOMAIN s : p(i) <= p(j)
                  /\ \A j \in 1..(i - 1) : p(j) > p(i)
    IN  s[i0]

\* min(c.get("price", float("inf")) for c in s)
min_price(s) == Get(min_by_price(s), "price", Inf)

----------------------------------------------------------------------------
(* str.lower() and str.strip() on sequences of characters *)

Upper == <<"A","B","C","D","E","F","G","H","I","J","K","L","M",
           "N","O","P","Q","R","S","T","U","V","W","X","Y","Z">>
Lower == <<"a","b","c","d","e","f","g","h","i","j","k","l","m",
           "n","o","p","q","r","s","t","u","v","w","x","y","z">>
Whitespace == {" ", "\t", "\n"}

lower_char(ch) ==
    IF \E i \in DOMAIN Upper : Upper[i] = ch
    THEN Lower[CHOOSE i \in DOMAIN Upper : Upper[i] = ch]
    ELSE ch

lower(s) == [i \in DOMAIN s |-> lower_char(s[i])]

RECURSIVE lstrip(_)
lstrip(s) == IF s # <<>> /\ Head(s) \in Whitespace THEN lstrip(Tail(s)) ELSE s

RECURSIVE rstrip(_)
rstrip(s) ==
    IF s # <<>> /\ s[Len(s)] \in Whitespace
    THEN rstrip(SubSeq(s, 1, Len(s) - 1))
    ELSE s

strip(s) == rstrip(lstrip(s))


----------------------------------------------------------------------------
(* Selection primitives (main.py:34-95).  A primitive that draws at random *)
(* is the set of the values it may return.                                 *)

EmptyDict == [k \in {} |-> 0]

\* c.get("price", 0) <= max_budget * target_percent * 1.15   (main.py:36-37)
within_ceiling(c, max_budget, target_percent) ==
    Get(c, "price", 0) * 10000 <= max_budget * target_percent * 115

\* the sort key (performance_score, price), a placed at or before b when
\* sorting in descending order
key_ge(a, b) ==
    LET pa == Get(a, "performance_score", 0)
        pb == Get(b, "performance_score", 0)
    IN  \/ pa > pb
        \/ pa = pb /\ Get(a, "price", 0) >= Get(b, "price", 0)

RECURSIVE insert_desc(_, _)
insert_desc(s, x) ==
    IF s = <<>> THEN <<x>>
    ELSE IF key_ge(Head(s), x) THEN <<Head(s)>> \o insert_desc(Tail(s), x)
    ELSE <<x>> \o s

\* list.sort(key=..., reverse=True): stable, descending
RECURSIVE sort_desc(_)
sort_desc(s) ==
    IF s = <<>> THEN <<>>
    ELSE insert_desc(sort_desc(SubSeq(s, 1, Len(s) - 1)), s[Len(s)])

\* variant: falls back to the cheapest component instead of returning None
choose_best_or_cheapest(components, max_budget, target_percent) ==
    LET ok(c) == within_ceiling(c, max_budget, target_percent)
        candidates == SelectSeq(components, ok)
        sorted == sort_desc(candidates)
    IN  IF components = <<>> THEN {None}
        ELSE IF candidates = <<>> THEN {min_by_price(components)}
        ELSE IF Len(sorted) > 2 THEN {sorted[1], sorted[2]}
        ELSE {sorted[1]}

choose_best_component(components, max_budget, target_percent) ==
    LET ok(c) == within_ceiling(c, max_budget, target_percent)
        candidates == SelectSeq(components, ok)
        sorted == sort_desc(candidates)
    IN  IF candidates = <<>> THEN {None}
        ELSE IF Len(sorted) > 2 THEN {sorted[1], sorted[2]}
        ELSE {sorted[1]}

\* variant: draws from the whole list, ignoring the socket
choose_any_motherboard(mobos, cpu) ==
    IF cpu = None THEN {None} ELSE Elems(mobos)

choose_compatible_motherboard(mobos, cpu) ==
    IF cpu = None THEN {None}
    ELSE LET same(m) == same_get(m, cpu, "socket")
             compatibles == SelectSeq(mobos, same)
         IN  IF compatibles # <<>> THEN Elems(compatibles) ELSE Elems(mobos)

\* variant: without the search for an integrated GPU
choose_gpu_first(gpus, profile_info, budget, gpu_percent) ==
    IF ~Get(profile_info, "gpu_required", FALSE)
    THEN (IF gpus # <<>> THEN {gpus[1]} ELSE {None})
    ELSE choose_best_component(gpus, budget, gpu_percent)

choose_gpu_for_profile(gpus, profile_info, budget, gpu_percent) ==
    IF ~Get(profile_info, "gpu_required", FALSE)
    THEN LET integ(g) == get_in(g, "level", {"integrated"})
             found == SelectSeq(gpus, integ)
         IN  IF found # <<>> THEN {found[1]}
             ELSE IF gpus # <<>> THEN {gpus[1]} ELSE {None}
    ELSE choose_best_component(gpus, budget, gpu_percent)

\* variant: without the minimum-size filters
choose_ram_and_ssd_unfiltered(rams, ssds, profile_info, budget, ram_percent, ssd_percent) ==
    (IF rams # <<>> THEN choose_best_component(rams, budget, ram_percent) ELSE {None})
        \X (IF ssds # <<>> THEN choose_best_component(ssds, budget, ssd_percent)
            ELSE {None})

\* the pairs (ram, ssd) the function may return
choose_ram_and_ssd(rams, ssds, profile_info, budget, ram_percent, ssd_percent) ==
    LET ram_ok(r) == Get(r, "size_gb", 0) >= Get(profile_info, "min_ram_gb", 0)
        ssd_ok(x) == Get(x, "size_gb", 0) >= Get(profile_info, "min_ssd_gb", 0)
        ram_f == SelectSeq(rams, ram_ok)
        ssd_f == SelectSeq(ssds, ssd_ok)
        ram_candidates == IF ram_f = <<>> /\ rams # <<>>
                          THEN <<min_by_price(rams)>> ELSE ram_f
        ssd_candidates == IF ssd_f = <<>> /\ ssds # <<>>
                          THEN <<min_by_price(ssds)>> ELSE ssd_f
        ram_set == IF ram_candidates # <<>>
                   THEN choose_best_component(ram_candidates, budget, ram_percent)
                   ELSE {None}
        ssd_set == IF ssd_candidates # <<>>
                   THEN choose_best_component(ssd_candidates, budget, ssd_percent)
                   ELSE {None}
    IN  ram_set \X ssd_set

gamer == <<"g","a","m","e","r">>
disenador == <<"d","i","s","e","n","a","d","o","r">>
ofimatico == <<"o","f","i","m","a","t","i","c","o">>
estudiante == <<"e","s","t","u","d","i","a","n","t","e">>
programador == <<"p","r","o","g","r","a","m","a","d","o","r">>
ninguno == <<"n","i","n","g","u","n","o">>

\* variant: the gamer filter at 120 Hz
choose_monitor_120(monitors, profile, budget) ==
    IF monitors = <<>> THEN {None}
    ELSE IF profile = gamer /\ budget > 20000
    THEN LET fast(m) == Get(m, "hz", 0) >= 120
             filtered == SelectSeq(monitors, fast)
         IN  IF filtered # <<>> THEN Elems(filtered) ELSE Elems(monitors)
    ELSE IF profile = disenador /\ budget > 30000
    THEN LET sharp(m) == get_in(m, "res", {"1440p", "4K"})
             filtered == SelectSeq(monitors, sharp)
         IN  IF filtered # <<>> THEN Elems(filtered) ELSE Elems(monitors)
    ELSE LET cheap(m) == Get(m, "price", Inf) * 5 <= budget
             valid_monitors == SelectSeq(monitors, cheap)
         IN  IF valid_monitors # <<>> THEN Elems(valid_monitors)
             ELSE Elems(monitors)

choose_monitor(monitors, profile, budget) ==
    IF monitors = <<>> THEN {None}
    ELSE IF profile = gamer /\ budget > 20000
    THEN LET fast(m) == Get(m, "hz", 0) >= 144
             filtered == SelectSeq(monitors, fast)
         IN  IF filtered # <<>> THEN Elems(filtered) ELSE Elems(monitors)
    ELSE IF profile = disenador /\ budget > 30000
    THEN LET sharp(m) == get_in(m, "res", {"1440p", "4K"})
             filtered == SelectSeq(monitors, sharp)
         IN  IF filtered # <<>> THEN Elems(filtered) ELSE Elems(monitors)
    ELSE LET cheap(m) == Get(m, "price", Inf) * 5 <= budget
             valid_monitors == SelectSeq(monitors, cheap)
         IN  IF valid_monitors # <<>> THEN Elems(valid_monitors)
             ELSE Elems(monitors)

\* variant: the third tier falls back to the first PSU of a short list
choose_psu_index_first(psus, gpu) ==
    IF gpu = None THEN 0
    ELSE LET power == Get(gpu, "power_w", 100)
         IN  IF power <= 100 THEN 0
             ELSE IF power <= 160 THEN (IF Len(psus) > 1 THEN 1 ELSE 0)
             ELSE IF power <= 200 THEN (IF Len(psus) > 2 THEN 2 ELSE 0)
             ELSE Len(psus) - 1

\* the 0-based list index choose_psu returns for a non-empty list
choose_psu_index(psus, gpu) ==
    IF gpu = None THEN 0
    ELSE LET power == Get(gpu, "power_w", 100)
         IN  IF power <= 100 THEN 0
             ELSE IF power <= 160 THEN (IF Len(psus) > 1 THEN 1 ELSE 0)
             ELSE IF power <= 200 THEN (IF Len(psus) > 2 THEN 2 ELSE Len(psus) - 1)
             ELSE Len(psus) - 1

choose_psu(psus, gpu) ==
    IF psus = <<>> THEN None ELSE psus[choose_psu_index(psus, gpu) + 1]


----------------------------------------------------------------------------
(* POST /recommend (main.py:98-211) and GET /health (main.py:214-216)      *)

\* variant: the tiers include their upper limit
detect_profile_inclusive(budget) ==
    IF budget <= 10000 THEN ofimatico
    ELSE IF budget <= 20000 THEN estudiante
    ELSE IF budget <= 30000 THEN programador
    ELSE IF budget <= 40000 THEN gamer
    ELSE disenador

\* the budget tiers of the automatic profile detection (main.py:109-118)
detect_profile(budget) ==
    IF budget < 10000 THEN ofimatico
    ELSE IF budget < 20000 THEN estudiante
    ELSE IF budget < 30000 THEN programador
    ELSE IF budget < 40000 THEN gamer
    ELSE disenador

\* (req.profile or "").lower().strip(); a null profile is a request record
\* without the profile field
profile_in_of(req) == strip(lower(Get(req, "profile", <<>>)))

auto_detected_of(kn, req) ==
    LET profile_in == profile_in_of(req)
    IN  \/ profile_in = <<>>
        \/ profile_in \notin DOMAIN kn.profiles
        \/ profile_in = ninguno

profile_of(kn, req) ==
    IF auto_detected_of(kn, req) THEN detect_profile(req.budget)
    ELSE profile_in_of(req)

\* the keys of the minimum base cost (main.py:129)
min_base_keys == <<"cpus", "rams", "ssds", "psus", "motherboards", "monitors">>

min_base_of(kn) ==
    SumSeq([i \in DOMAIN min_base_keys |-> min_price(kn.components[min_base_keys[i]])])

\* round(x, 2) of an amount in whole currency units
round2(x) == x

ErrorTooLow ==
    "El presupuesto ingresado es demasiado bajo para ensamblar una computadora funcional."
ErrorNoCombination ==
    "No se encontro una combinacion posible ni siquiera con los componentes mas basicos."
NoteFallback ==
    "Se usaron componentes minimos posibles debido al presupuesto ajustado."
NoteDetected == "El sistema detecto automaticamente el perfil"

Slots == <<"cpu", "gpu", "ram", "ssd", "psu", "motherboard", "monitor">>

\* [k for k, v in {...}.items() if v is None]
missing_of(sel) == SelectSeq(Slots, LAMBDA k : sel[k] = None)

\* the selections of the first pass (main.py:144-150)
first_pass(kn, profile, budget) ==
    LET components == kn.components
        profile_info == kn.profiles[profile]
        allocation == Get(kn.rules_meta.allocation_percentages, profile, EmptyDict)
    IN  UNION {
          { [cpu |-> cpu, gpu |-> gpu, ram |-> rs[1], ssd |-> rs[2],
             psu |-> choose_psu(components.psus, gpu),
             motherboard |-> mobo, monitor |-> monitor] :
              gpu \in choose_gpu_for_profile(components.gpus, profile_info, budget,
                                             Get(allocation, "gpu", 25)),
              rs \in choose_ram_and_ssd(components.rams, components.ssds,
                                        profile_info, budget,
                                        Get(allocation, "ram", 15),
                                        Get(allocation, "ssd", 10)),
              mobo \in choose_compatible_motherboard(components.motherboards, cpu),
              monitor \in choose_monitor(components.monitors, profile, budget) } :
          cpu \in choose_best_component(components.cpus, budget,
                                        Get(allocation, "cpu", 25)) }

\* x or min(list, key=price)
or_cheapest(x, list) == IF x # None THEN x ELSE min_by_price(list)

\* the relaxed second pass (main.py:158-164)
second_pass(kn, sel) ==
    LET components == kn.components
        cpu == or_cheapest(sel.cpu, components.cpus)
    IN  { [cpu |-> cpu,
           gpu |-> or_cheapest(sel.gpu, components.gpus),
           ram |-> or_cheapest(sel.ram, components.rams),
           ssd |-> or_cheapest(sel.ssd, components.ssds),
           psu |-> or_cheapest(sel.psu, components.psus),
           motherboard |-> mobo,
           monitor |-> or_cheapest(sel.monitor, components.monitors)] :
          mobo \in IF sel.motherboard # None THEN {sel.motherboard}
                   ELSE choose_compatible_motherboard(components.motherboards, cpu) }

\* variant: the monitor is left out of the total
total_price_without_monitor(sel) ==
    sel.cpu.price + sel.gpu.price + sel.ram.price + sel.ssd.price
        + sel.psu.price + sel.motherboard.price

\* sum([cpu["price"], ..., monitor["price"]])   (main.py:181-184)
total_price_of(sel) ==
    sel.cpu.price + sel.gpu.price + sel.ram.price + sel.ssd.price
        + sel.psu.price + sel.motherboard.price + sel.monitor.price

\* the result dict (main.py:186-207)
result_of(kn, profile, budget, auto_detected, sel, fallback) ==
    LET total_price == total_price_of(sel)
        result == [profile |-> profile,
                   budget_input |-> budget,
                   components |-> [CPU |-> sel.cpu, GPU |-> sel.gpu, RAM |-> sel.ram,
                                   SSD |-> sel.ssd, Motherboard |-> sel.motherboard,
                                   PSU |-> sel.psu, Monitor |-> sel.monitor],
                   total_price_estimate |-> total_price,
                   exceeds_budget |-> (total_price > budget),
                   allocation_estimate |->
                       Get(kn.rules_meta.allocation_percentages, profile, EmptyDict)]
    IN  IF auto_detected
        THEN result @@ [note |-> <<NoteDetected, profile>>
                                   \o (IF fallback THEN <<NoteFallback>> ELSE <<>>)]
        ELSE IF fallback THEN result @@ [note |-> <<NoteFallback>>]
        ELSE result

\* every value the handler may return for req
recommend(kn, req) ==
    LET budget == req.budget
        profile == profile_of(kn, req)
        auto_detected == auto_detected_of(kn, req)
        min_base == min_base_of(kn)
        finish(sel) ==
            IF missing_of(sel) = <<>>
            THEN {result_of(kn, profile, budget, auto_detected, sel, FALSE)}
            ELSE { IF missing_of(sel2) # <<>>
                   THEN [error |-> ErrorNoCombination, profile |-> profile,
                         budget_input |-> budget,
                         debug |-> [missing |-> missing_of(sel2), budget |-> budget]]
                   ELSE result_of(kn, profile, budget, auto_detected, sel2, TRUE) :
                   sel2 \in second_pass(kn, sel) }
    IN  IF budget < min_base
        THEN {[error |-> ErrorTooLow, profile |-> profile, budget_input |-> budget,
               minimum_required |-> round2(min_base),
               debug |-> [min_base |-> round2(min_base), budget |-> budget,
                          profile_used |-> profile]]}
        ELSE UNION {finish(sel) : sel \in first_pass(kn, profile, budget)}

health == [status |-> "ok"]


----------------------------------------------------------------------------
(* The knowledge base.  base_knowledge.json (main.py:11-24) is data, so    *)
(* the model draws it from a family: a reference knowledge base and every  *)
(* knowledge base that differs from it in at most MaxVaried categories,    *)
(* a varied category being a non-empty sub-list of the reference list.     *)
(* Every profile the detection can name is present (main.py:124 reads it). *)

RefCpus == <<
    [name |-> "cpu-a", price |-> 1800, performance_score |-> 40, socket |-> "AM4"],
    [name |-> "cpu-b", price |-> 3500, performance_score |-> 65, socket |-> "LGA1700"],
    [name |-> "cpu-c", price |-> 6000, performance_score |-> 90, socket |-> "AM5"] >>

RefGpus == <<
    [name |-> "gpu-mid", price |-> 4500, performance_score |-> 60,
     level |-> "mid", power_w |-> 150],
    [name |-> "gpu-int", price |-> 0, performance_score |-> 10,
     level |-> "integrated"],
    [name |-> "gpu-high", price |-> 9000, performance_score |-> 90,
     level |-> "high", power_w |-> 250] >>

RefRams == <<
    [name |-> "ram-8", price |-> 600, performance_score |-> 30, size_gb |-> 8],
    [name |-> "ram-16", price |-> 1200, performance_score |-> 50, size_gb |-> 16],
    [name |-> "ram-32", price |-> 2600, performance_score |-> 70, size_gb |-> 32] >>

RefSsds == <<
    [name |-> "ssd-256", price |-> 500, performance_score |-> 30, size_gb |-> 256],
    [name |-> "ssd-1000", price |-> 1500, performance_score |-> 60, size_gb |-> 1000] >>

RefMobos == <<
    [name |-> "mb-am4", price |-> 1500, socket |-> "AM4"],
    [name |-> "mb-lga", price |-> 2200, socket |-> "LGA1700"] >>

RefPsus == <<
    [name |-> "psu-500", price |-> 800, watts |-> 500],
    [name |-> "psu-650", price |-> 1200, watts |-> 650],
    [name |-> "psu-750", price |-> 1700, watts |-> 750] >>

RefMonitors == <<
    [name |-> "mon-60", price |-> 2200, hz |-> 60, res |-> "1080p"],
    [name |-> "mon-120", price |-> 3200, hz |-> 120, res |-> "1080p"],
    [name |-> "mon-144", price |-> 5200, hz |-> 144, res |-> "1440p"] >>

RefProfiles ==
    (ofimatico :> [gpu_required |-> FALSE, min_ram_gb |-> 8, min_ssd_gb |-> 256])
    @@ (estudiante :> [gpu_required |-> FALSE, min_ram_gb |-> 8, min_ssd_gb |-> 256])
    @@ (programador :> [gpu_required |-> FALSE, min_ram_gb |-> 16, min_ssd_gb |-> 512])
    @@ (gamer :> [gpu_required |-> TRUE, min_ram_gb |-> 16, min_ssd_gb |-> 512])
    @@ (disenador :> [gpu_required |-> TRUE, min_ram_gb |-> 32, min_ssd_gb |-> 1000])

\* "ninguno" may or may not be an entry of the profiles
NingunoProfile == ninguno :> [gpu_required |-> FALSE, min_ram_gb |-> 4, min_ssd_gb |-> 128]

\* fractions in hundredths; estudiante has no entry and programador a partial
\* one, so the defaults of main.py:144-147 are used
RefAllocation ==
    (ofimatico :> [cpu |-> 30, gpu |-> 5, ram |-> 15, ssd |-> 15])
    @@ (programador :> [cpu |-> 35, ram |-> 20])
    @@ (gamer :> [cpu |-> 25, gpu |-> 40, ram |-> 10, ssd |-> 8])
    @@ (disenador :> [cpu |-> 25, gpu |-> 35, ram |-> 15, ssd |-> 10])

\* the elements of s at the positions in m, in order
pick(s, m) ==
    LET F[i \in 0..Len(s)] ==
            IF i = 0 THEN <<>>
            ELSE IF i \in m THEN Append(F[i - 1], s[i]) ELSE F[i - 1]
    IN  F[Len(s)]

sub_lists(s) == {pick(s, m) : m \in (SUBSET DOMAIN s) \ {{}}}

RefComponents ==
    [cpus |-> RefCpus, gpus |-> RefGpus, rams |-> RefRams, ssds |-> RefSsds,
     motherboards |-> RefMobos, psus |-> RefPsus, monitors |-> RefMonitors]

Categories == DOMAIN RefComponents

varied(components, with_ninguno) ==
    Cardinality({c \in Categories : components[c] # RefComponents[c]})
        + (IF with_ninguno THEN 1 ELSE 0)

knowledge_base(components, with_ninguno) ==
    [profiles |-> IF with_ninguno THEN RefProfiles @@ NingunoProfile ELSE RefProfiles,
     components |-> components,
     rules_meta |-> [allocation_percentages |-> RefAllocation]]

ComponentLists ==
    [cpus : sub_lists(RefCpus), gpus : sub_lists(RefGpus), rams : sub_lists(RefRams),
     ssds : sub_lists(RefSsds), motherboards : sub_lists(RefMobos),
     psus : sub_lists(RefPsus), monitors : sub_lists(RefMonitors)]

KnowledgeBases ==
    { knowledge_base(x[1], x[2]) :
        x \in { y \in ComponentLists \X BOOLEAN : varied(y[1], y[2]) <= MaxVaried } }

----------------------------------------------------------------------------
(* Requests *)

\* the profile strings sent; a request may also carry no profile (null)
ProfileInputs ==
    { <<>>,
      <<"N","i","n","G","u","n","o">>,
      <<"G","A","M","E","R"," ">>,
      ofimatico,
      <<"D","i","s","e","n","a","d","o","r">>,
      <<"p","r","o">> }

\* budgets sent to kn: the multiples of 5000 and the minimum base cost itself
Budgets(kn) == {5000 * k : k \in 1..MaxBudgetK} \cup {min_base_of(kn)}

Requests(kn) ==
    [profile : ProfileInputs, budget : Budgets(kn)] \cup [budget : Budgets(kn)]

----------------------------------------------------------------------------
(* The service *)

Init ==
    /\ knowledge \in KnowledgeBases
    /\ request = NoRequest
    /\ response = NoResponse
    /\ best_args = NotCalled
    /\ best_ret = NotCalled
    /\ psu_args = NotCalled
    /\ psu_ret = NotCalled

\* POST /recommend: the handler runs to its return
Recommend ==
    /\ request = NoRequest
    /\ \E req \in Requests(knowledge) :
          /\ request' = req
          /\ response' \in recommend(knowledge, req)
    /\ UNCHANGED <<knowledge, best_args, best_ret, psu_args, psu_ret>>

\* GET /health
Health ==
    /\ request = NoRequest
    /\ request' = [health |-> TRUE]
    /\ response' = health
    /\ UNCHANGED <<knowledge, best_args, best_ret, psu_args, psu_ret>>

\* the response is sent; nothing of the request is kept
Reply ==
    /\ request # NoRequest
    /\ request' = NoRequest
    /\ response' = NoResponse
    /\ UNCHANGED <<knowledge, best_args, best_ret, psu_args, psu_ret>>

Next == Recommend \/ Health \/ Reply

Spec == Init /\ [][Next]_vars

----------------------------------------------------------------------------
(* Direct calls of choose_best_component (main.py:34-43)                   *)

BestPool ==
    [price : {100, 200, 300}, performance_score : {1, 2}]
        \cup {[price |-> 200]}

RECURSIVE seqs_upto(_, _)
seqs_upto(S, n) ==
    IF n = 0 THEN {<<>>}
    ELSE LET shorter == seqs_upto(S, n - 1)
         IN  shorter \cup {Append(q, x) : q \in shorter, x \in S}

BestArgs ==
    [components : seqs_upto(BestPool, MaxComps),
     max_budget : {500, 1000, 2000},
     target_percent : {10, 20}]

InitBest ==
    /\ knowledge = NotUsed
    /\ request = NoRequest
    /\ response = NoResponse
    /\ best_args \in BestArgs
    /\ best_ret = NotCalled
    /\ psu_args = NotCalled
    /\ psu_ret = NotCalled

CallChooseBest ==
    /\ best_ret = NotCalled
    /\ best_ret' \in choose_best_component(best_args.components, best_args.max_budget,
                                           best_args.target_percent)
    /\ UNCHANGED <<knowledge, request, response, best_args, psu_args, psu_ret>>

NextBest == CallChooseBest

SpecBest == InitBest /\ [][NextBest]_vars

----------------------------------------------------------------------------
(* Direct calls of choose_psu (main.py:82-95): one PSU list, two GPUs      *)

psu_list(n) == [i \in 1..n |-> [price |-> 500 + 300 * i, watts |-> 400 + 100 * i]]

PsuGpus ==
    {[level |-> "discrete", power_w |-> w] : w \in {0, 100, 101, 160, 161, 200, 201, 350}}
        \cup {[level |-> "integrated"], None}

PsuArgs == [psus : {psu_list(n) : n \in 0..MaxPsus}, g1 : PsuGpus, g2 : PsuGpus]

InitPsu ==
    /\ knowledge = NotUsed
    /\ request = NoRequest
    /\ response = NoResponse
    /\ best_args = NotCalled
    /\ best_ret = NotCalled
    /\ psu_args \in PsuArgs
    /\ psu_ret = NotCalled

CallChoosePsu ==
    /\ psu_ret = NotCalled
    /\ psu_ret' = [r1 |-> choose_psu(psu_args.psus, psu_args.g1),
                   r2 |-> choose_psu(psu_args.psus, psu_args.g2)]
    /\ UNCHANGED <<knowledge, request, response, best_args, best_ret, psu_args>>

NextPsu == CallChoosePsu

SpecPsu == InitPsu /\ [][NextPsu]_vars

----------------------------------------------------------------------------
(* Properties *)

\* a /recommend request has been answered
Answered == "budget" \in DOMAIN request
Success == Answered /\ "components" \in DOMAIN response
Failed == Answered /\ "error" \in DOMAIN response
Relaxed ==
    Success /\ "note" \in DOMAIN response
        /\ response.note[Len(response.note)] = NoteFallback

SevenCategories ==
    <<"cpus", "gpus", "rams", "ssds", "motherboards", "psus", "monitors">>

\* the sum, over the seven mandatory categories, of the cheapest price
SevenCategoryMinimum(kn) ==
    SumSeq([i \in DOMAIN SevenCategories |-> min_price(kn.components[SevenCategories[i]])])

CategoryOfSlot ==
    [CPU |-> "cpus", GPU |-> "gpus", RAM |-> "rams", SSD |-> "ssds",
     Motherboard |-> "motherboards", PSU |-> "psus", Monitor |-> "monitors"]

SlotNames == <<"CPU", "GPU", "RAM", "SSD", "Motherboard", "PSU", "Monitor">>

\* C1: with a budget at or above the minimum base cost (the seven-category
\* sum, and already the six-category sum the handler computes) the answer is
\* a success result with exactly seven priced components, each from its own
\* category, a total that is the sum of the seven prices, and exceeds_budget
\* true exactly when the total is above the budget.
C1_SevenComponentsAndExactTotal ==
    (Answered /\ (\/ request.budget >= SevenCategoryMinimum(knowledge)
                  \/ request.budget >= min_base_of(knowledge)))
    => /\ "components" \in DOMAIN response
       /\ "error" \notin DOMAIN response
       /\ DOMAIN response.components = DOMAIN CategoryOfSlot
       /\ \A k \in DOMAIN CategoryOfSlot :
             /\ response.components[k] # None
             /\ response.components[k] \in Elems(knowledge.components[CategoryOfSlot[k]])
             /\ "price" \in DOMAIN response.components[k]
       /\ response.total_price_estimate
             = SumSeq([i \in DOMAIN SlotNames |-> response.components[SlotNames[i]].price])
       /\ response.exceeds_budget = (response.total_price_estimate > request.budget)

\* C1 witness: an over-budget build, completed by the second pass, returned
\* as a flagged success
C1_Witness ==
    /\ Relaxed
    /\ request.budget >= SevenCategoryMinimum(knowledge)
    /\ response.exceeds_budget
    /\ response.total_price_estimate > request.budget

\* C2 (as claimed): below the seven-category minimum the answer is the
\* infeasibility error carrying that minimum and no components; at or above
\* it the infeasibility error is not returned.
C2_InfeasibleBelowSevenCategoryMinimum ==
    Answered
    => /\ request.budget < SevenCategoryMinimum(knowledge)
              => /\ "minimum_required" \in DOMAIN response
                 /\ response.minimum_required = SevenCategoryMinimum(knowledge)
                 /\ "components" \notin DOMAIN response
       /\ request.budget >= SevenCategoryMinimum(knowledge)
              => "minimum_required" \notin DOMAIN response

\* a motherboard of the knowledge base has the socket of component c
SocketAvailable(c) ==
    \E m \in Elems(knowledge.components.motherboards) : same_get(m, c, "socket")

\* C3: in every success result the motherboard has the CPU's socket whenever
\* the knowledge base holds a motherboard with that socket.
C3_MotherboardMatchesCpuSocket ==
    (Success /\ SocketAvailable(response.components.CPU))
    => response.components.Motherboard.socket = response.components.CPU.socket

\* C3 witness: a result of the second pass, where the CPU is the cheapest one
\* and a motherboard of another socket was on offer
C3_Witness ==
    /\ Relaxed
    /\ response.components.CPU = min_by_price(knowledge.components.cpus)
    /\ SocketAvailable(response.components.CPU)
    /\ \E m \in Elems(knowledge.components.motherboards) :
          m.socket # response.components.CPU.socket
    /\ response.components.Motherboard.socket = response.components.CPU.socket

\* the profile asked for is absent, empty or "ninguno" in some letter case
AutoRequested ==
    \/ "profile" \notin DOMAIN request
    \/ request.profile = <<>>
    \/ lower(request.profile) = ninguno

\* the step function of the budget
TierProfile(budget) ==
    CASE budget < 10000 -> ofimatico
      [] budget >= 10000 /\ budget < 20000 -> estudiante
      [] budget >= 20000 /\ budget < 30000 -> programador
      [] budget >= 30000 /\ budget < 40000 -> gamer
      [] budget >= 40000 -> disenador

\* C4: without a profile (absent, empty, "ninguno" in any case) the profile
\* of the answer, success or error, is the budget tier's profile; a known
\* profile other than "ninguno" is used unchanged, whatever the budget (and
\* one written in another case or with blanks around it is used in its
\* lower-case, stripped form).
C4_ProfileIsStepFunctionOfBudget ==
    Answered
    => /\ "profile" \in DOMAIN response
       /\ AutoRequested => response.profile = TierProfile(request.budget)
       /\ ("profile" \in DOMAIN request
              /\ request.profile \in DOMAIN knowledge.profiles
              /\ request.profile # ninguno)
           => response.profile = request.profile
       /\ ("profile" \in DOMAIN request
              /\ strip(lower(request.profile)) \in DOMAIN knowledge.profiles
              /\ strip(lower(request.profile)) # ninguno)
           => response.profile = strip(lower(request.profile))

\* C4 witness: an error answer at the tier limit 10000, asked with "ninguno"
\* in mixed case
C4_Witness ==
    /\ Failed
    /\ "profile" \in DOMAIN request
    /\ request.profile # ninguno
    /\ lower(request.profile) = ninguno
    /\ request.budget = 10000
    /\ response.profile = estudiante

HasIntegratedGpu ==
    \E g \in Elems(knowledge.components.gpus) : get_in(g, "level", {"integrated"})

\* C5: when the used profile does not require a GPU, the GPU of a success
\* result is an integrated one whenever the knowledge base lists one.
C5_IntegratedGpuWhenNotRequired ==
    (Success /\ ~knowledge.profiles[response.profile].gpu_required /\ HasIntegratedGpu)
    => response.components.GPU.level = "integrated"

\* C5 witness: the integrated GPU is not the first of the list and the
\* budget would pay for a discrete one
C5_Witness ==
    /\ Success
    /\ ~knowledge.profiles[response.profile].gpu_required
    /\ HasIntegratedGpu
    /\ knowledge.components.gpus[1].level # "integrated"
    /\ request.budget >= 30000
    /\ response.components.GPU.level = "integrated"

HasMonitorAtLeast(hz) ==
    \E m \in Elems(knowledge.components.monitors) : Get(m, "hz", 0) >= hz

\* C7 (as claimed): a gamer success result has a monitor of 120 Hz or more
\* whenever the knowledge base lists one.
C7_GamerMonitor120 ==
    (Success /\ response.profile = gamer /\ HasMonitorAtLeast(120))
    => response.components.Monitor.hz >= 120

\* C7 (amended): a gamer success result for a budget above 20000 has a
\* monitor of 144 Hz or more whenever the knowledge base lists one.
C7_GamerMonitor144AboveBudgetGate ==
    (Success /\ response.profile = gamer /\ request.budget > 20000
        /\ HasMonitorAtLeast(144))
    => response.components.Monitor.hz >= 144

\* C7 witness: gamer at 35000 with slower monitors on offer
C7_Witness ==
    /\ Success
    /\ response.profile = gamer
    /\ request.budget = 35000
    /\ HasMonitorAtLeast(144)
    /\ \E m \in Elems(knowledge.components.monitors) : m.hz < 120
    /\ \E m \in Elems(knowledge.components.monitors) : m.hz >= 120 /\ m.hz < 144
    /\ response.components.Monitor.hz >= 144

\* the allocation fraction (hundredths) the handler uses for a slot
UsedPercent(slot, default) ==
    Get(Get(knowledge.rules_meta.allocation_percentages, response.profile, EmptyDict),
        slot, default)

MeetsMinimum(c, key) == Get(c, "size_gb", 0) >= knowledge.profiles[response.profile][key]

Affordable(c, percent) == c.price * 10000 <= request.budget * percent * 115

\* C10 (as claimed): in every success result the RAM (SSD) meets the
\* profile minimum whenever the knowledge base lists one that does.
C10_MinimumSizesAlways ==
    Success
    => /\ (\E r \in Elems(knowledge.components.rams) : MeetsMinimum(r, "min_ram_gb"))
              => MeetsMinimum(response.components.RAM, "min_ram_gb")
       /\ (\E x \in Elems(knowledge.components.ssds) : MeetsMinimum(x, "min_ssd_gb"))
              => MeetsMinimum(response.components.SSD, "min_ssd_gb")

\* C10 (amended): the RAM (SSD) meets the profile minimum whenever the
\* knowledge base lists one that does at a price within
\* budget * percent * 1.15; when none does, the RAM (SSD) of the result is
\* the cheapest of the category, whatever its size.
C10_MinimumSizesWithinCeiling ==
    Success
    => /\ IF \E r \in Elems(knowledge.components.rams) :
                 MeetsMinimum(r, "min_ram_gb") /\ Affordable(r, UsedPercent("ram", 15))
          THEN MeetsMinimum(response.components.RAM, "min_ram_gb")
          ELSE response.components.RAM = min_by_price(knowledge.components.rams)
       /\ IF \E x \in Elems(knowledge.components.ssds) :
                 MeetsMinimum(x, "min_ssd_gb") /\ Affordable(x, UsedPercent("ssd", 10))
          THEN MeetsMinimum(response.components.SSD, "min_ssd_gb")
          ELSE response.components.SSD = min_by_price(knowledge.components.ssds)

\* C10 witness: a smaller, cheaper RAM was within the ceiling too, and the
\* result still meets the minimum
C10_Witness ==
    /\ Success
    /\ \E r \in Elems(knowledge.components.rams) :
          ~MeetsMinimum(r, "min_ram_gb") /\ Affordable(r, UsedPercent("ram", 15))
    /\ \E r \in Elems(knowledge.components.rams) :
          MeetsMinimum(r, "min_ram_gb") /\ Affordable(r, UsedPercent("ram", 15))
    /\ MeetsMinimum(response.components.RAM, "min_ram_gb")
    /\ \E x \in Elems(knowledge.components.ssds) :
          ~MeetsMinimum(x, "min_ssd_gb") /\ Affordable(x, UsedPercent("ssd", 10))
    /\ MeetsMinimum(response.components.SSD, "min_ssd_gb")

\* choose_psu has been called on a non-empty list with two GPUs
PsuCalled ==
    /\ psu_ret # NotCalled
    /\ psu_args.psus # <<>>
    /\ psu_args.g1 # None
    /\ psu_args.g2 # None

\* the power draw of a GPU, a missing power_w counting as 100
PowerOf(g) == IF "power_w" \in DOMAIN g THEN g.power_w ELSE 100

\* the 0-based index of PSU x in the list (the PSUs of a list are distinct)
PsuIndex(x) == (CHOOSE i \in DOMAIN psu_args.psus : psu_args.psus[i] = x) - 1

\* C6: on one non-empty PSU list, a GPU drawing no more power than another
\* gets a PSU at a list index no higher, and both PSUs are of the list.
C6_PsuMonotonicInPower ==
    PsuCalled
    => /\ psu_ret.r1 \in Elems(psu_args.psus)
       /\ psu_ret.r2 \in Elems(psu_args.psus)
       /\ PowerOf(psu_args.g1) <= PowerOf(psu_args.g2)
              => PsuIndex(psu_ret.r1) <= PsuIndex(psu_ret.r2)

\* C6 witness: a list of two, a GPU without power_w and one in the third
\* tier, which the short list clamps to its last PSU
C6_Witness ==
    /\ PsuCalled
    /\ Len(psu_args.psus) = 2
    /\ "power_w" \notin DOMAIN psu_args.g1
    /\ PowerOf(psu_args.g2) = 200
    /\ PsuIndex(psu_ret.r1) = 0
    /\ PsuIndex(psu_ret.r2) = 1

\* choose_best_component has been called on a non-empty list
BestCalled == best_ret # NotCalled /\ best_args.components # <<>>

\* the components of the call priced at or below
\* max_budget * target_percent * 1.15
Qualifying ==
    { c \in Elems(best_args.components) :
        Get(c, "price", 0) * 10000
            <= best_args.max_budget * best_args.target_percent * 115 }

\* C8 (as claimed): the call never returns None; with nothing under the
\* ceiling it returns the cheapest component of the list, otherwise a
\* component at or below the ceiling.
C8_NeverNone ==
    BestCalled
    => /\ best_ret # None
       /\ Qualifying = {} => best_ret = min_by_price(best_args.components)
       /\ Qualifying # {} => best_ret \in Qualifying

\* C8 (amended): with nothing under the ceiling the call returns None (the
\* handler's second pass then takes the cheapest of the category), otherwise
\* it returns a component of the list at or below the ceiling.
C8_NoneWhenNothingQualifies ==
    BestCalled
    => /\ Qualifying = {} => best_ret = None
       /\ Qualifying # {} => best_ret \in Qualifying

\* C8 witness: three components, all above the ceiling
C8_Witness ==
    /\ BestCalled
    /\ Len(best_args.components) = 3
    /\ Qualifying = {}
    /\ best_ret = None

Score(c) == Get(c, "performance_score", 0)

\* C9 (as claimed): the component returned has the highest performance_score
\* of the qualifying ones and, among those with that score, the lowest price.
C9_BestScoreThenLowestPrice ==
    (BestCalled /\ Qualifying # {})
    => /\ best_ret \in Qualifying
       /\ \A c \in Qualifying : Score(c) <= Score(best_ret)
       /\ \A c \in Qualifying :
             Score(c) = Score(best_ret) => Get(best_ret, "price", 0) <= Get(c, "price", 0)

=============================================================================
